---- MODULE Spec2Model ----
(***************************************************************************)
(* A model of src/src/main.rs: the one-pass min/mean/max aggregation of    *)
(* "<city>;<temperature>" lines.  Strings are sequences of one-character   *)
(* strings.  A &str is a view [buf, off, len] into the buffer that owns    *)
(* its bytes (the bump arena or the reused line buffer); a HashMap is the  *)
(* set of its entries, looked up by the contents of the key view.          *)
(***************************************************************************)
EXTENDS Integers, Sequences, FiniteSets, Bags, TLC

VARIABLES
    pc,                \* position of main: "loop", "render", "write", "done", "aborted"
    build,             \* "debug" (overflow checks panic) or "release" (they wrap)
    line_buffer,       \* main's line_buffer: the bytes of the line read last
    city_name_buffer,  \* the bump arena's bytes
    data_summary,      \* the HashMap<&str, CityData>, as the set of its entries
    line_counter,      \* main's line_counter
    summary_string,    \* main's summary_string
    output_file,       \* the sequence of blobs written to OUTPUT_FILE_PATH
    submitted,         \* history: the bag of [key, value] lines process_line completed
    allocs,            \* history: the number of alloc_str calls
    map_ops,           \* history: the HashMap operations of the last process_line call
    fatal_seen,        \* history: a malformed line was read
    order,             \* history: the iteration order values() produced
    codec_pc,          \* position of the codec harness
    codec_in,          \* the harness' input: an integer, or the parts of a text
    codec_text,        \* the text the codec produced or was given
    codec_res,         \* the result of the last codec call
    perm_pc,           \* position of the two-run harness
    pending2,          \* the bag of lines the second run has still to read
    city_name_buffer2, \* the second run's arena
    data_summary2      \* the second run's HashMap

pipe_vars == <<pc, line_buffer, city_name_buffer, data_summary, line_counter,
               summary_string, output_file, submitted, allocs, map_ops,
               fatal_seen, order>>
codec_vars == <<codec_pc, codec_in, codec_text, codec_res>>
perm_vars == <<perm_pc, pending2, city_name_buffer2, data_summary2>>
vars == <<pipe_vars, build, codec_vars, perm_vars>>

----------------------------------------------------------------------------
(* Bounds of the model. *)

\* lines read before end of file
MaxLines == 3
\* the formatter is applied to every integer of -MaxTemp..MaxTemp
MaxTemp == 1005
\* integer digits of a parsed text
MaxIntDigits == 2
\* lines of each of the two permuted runs
MaxPermLines == 3

----------------------------------------------------------------------------
(* Characters. *)

DigitChars == <<"0", "1", "2", "3", "4", "5", "6", "7", "8", "9">>

IsDigit(c) == \E d \in 1..10 : DigitChars[d] = c

\* c as u8 - b'0'
DigitVal(c) == (CHOOSE d \in 1..10 : DigitChars[d] = c) - 1

\* (b'0' + d) as char
DigitChar(d) == DigitChars[d + 1]

\* the two builds of the crate: overflow checks on (panic) or off (wrap)
Builds == {"debug", "release"}

----------------------------------------------------------------------------
(* temperature_to_int *)

RECURSIVE ScanTemperatureSkipNewlineDigit(_, _, _, _)
\* faulty variant: the line terminator is accumulated as a digit 0
ScanTemperatureSkipNewlineDigit(raw, i, temperature, is_negative) ==
    IF i > Len(raw)
    THEN [ok |-> TRUE, value |-> IF is_negative THEN -temperature ELSE temperature]
    ELSE LET c == raw[i] IN
         IF IsDigit(c)
         THEN ScanTemperatureSkipNewlineDigit(raw, i + 1, temperature * 10 + DigitVal(c), is_negative)
         ELSE IF c = "-"
         THEN ScanTemperatureSkipNewlineDigit(raw, i + 1, temperature, TRUE)
         ELSE IF c = "."
         THEN ScanTemperatureSkipNewlineDigit(raw, i + 1, temperature, is_negative)
         ELSE IF c = "\n"
         THEN ScanTemperatureSkipNewlineDigit(raw, i + 1, temperature * 10, is_negative)
         ELSE [ok |-> FALSE, value |-> 0]

RECURSIVE ScanTemperature(_, _, _, _)
\* the for loop over raw_temperature.chars() and the final sign
ScanTemperature(raw, i, temperature, is_negative) ==
    IF i > Len(raw)
    THEN [ok |-> TRUE, value |-> IF is_negative THEN -temperature ELSE temperature]
    ELSE LET c == raw[i] IN
         IF IsDigit(c)
         THEN ScanTemperature(raw, i + 1, temperature * 10 + DigitVal(c), is_negative)
         ELSE IF c = "-"
         THEN ScanTemperature(raw, i + 1, temperature, TRUE)
         ELSE IF c \in {".", "\n"}
         THEN ScanTemperature(raw, i + 1, temperature, is_negative)
         ELSE [ok |-> FALSE, value |-> 0]   \* unreachable!: a panic

\* faulty variant: the check for an empty string is missing
temperature_to_int_unchecked(raw_temperature) ==
    ScanTemperature(raw_temperature, 1, 0, FALSE)

\* ok = FALSE is a panic
temperature_to_int(raw_temperature) ==
    IF raw_temperature = <<>>
    THEN [ok |-> FALSE, value |-> 0]
    ELSE ScanTemperature(raw_temperature, 1, 0, FALSE)

----------------------------------------------------------------------------
(* int_to_temperature::<10> *)

TEMP_BUFF_SIZE == 10

\* the digit_index after which the '.' is pushed
DOT_INDEX == 8

\* index is a usize: -1 stands for usize::MAX, the value 0 - 1 wraps to
USIZE_MAX == -1

RECURSIVE FillDigits(_, _, _, _)
\* the while loop: the digits of temperature, last first, from the end of
\* the scratch array; ok = FALSE is a panic
FillDigits(digits, index, temperature, bld) ==
    IF temperature <= 0
    THEN [ok |-> TRUE, digits |-> digits, index |-> index]
    ELSE IF index = USIZE_MAX
    THEN [ok |-> FALSE, digits |-> digits, index |-> index]  \* digits[usize::MAX]: out of bounds
    ELSE IF index = 0 /\ bld = "debug"
    THEN [ok |-> FALSE, digits |-> digits, index |-> index]  \* index -= 1 overflows
    ELSE FillDigits([digits EXCEPT ![index] = temperature % 10],
                    IF index = 0 THEN USIZE_MAX ELSE index - 1,
                    temperature \div 10, bld)

RECURSIVE PushDigits(_, _, _)
\* the for loop over index + 1..TEMP_BUFF_SIZE
PushDigits(summary, digits, digit_index) ==
    IF digit_index >= TEMP_BUFF_SIZE
    THEN summary
    ELSE PushDigits(summary \o <<DigitChar(digits[digit_index])>>
                            \o (IF digit_index = DOT_INDEX THEN <<".">> ELSE <<>>),
                    digits, digit_index + 1)

\* the text appended to summary; ok = FALSE is a panic
int_to_temperature(summary, temperature, bld) ==
    IF temperature = 0
    THEN [ok |-> TRUE, out |-> summary \o <<"0", ".", "0">>]
    ELSE LET signed == IF temperature < 0 THEN Append(summary, "-") ELSE summary
             magnitude == IF temperature < 0 THEN -temperature ELSE temperature
             filled == FillDigits([i \in 0..(TEMP_BUFF_SIZE - 1) |-> 0],
                                  TEMP_BUFF_SIZE - 1, magnitude, bld)
         IN  IF ~filled.ok
             THEN [ok |-> FALSE, out |-> signed]
             ELSE [ok |-> TRUE,
                   \* index + 1: usize::MAX + 1 wraps to 0 (release)
                   out |-> PushDigits(signed, filled.digits,
                                      IF filled.index = USIZE_MAX THEN 0
                                      ELSE filled.index + 1)]

----------------------------------------------------------------------------
(* &str views, the bump arena and the HashMap *)

\* the bytes a &str denotes ("?" where the view lies outside its buffer,
\* which no view the borrow checker accepts does)
Deref(view, arena, line) ==
    LET bytes == IF view.buf = "arena" THEN arena ELSE line
    IN  [i \in 1..view.len |->
            IF view.off + i <= Len(bytes) THEN bytes[view.off + i] ELSE "?"]

\* faulty variant: no copy is made, the &str handed back borrows the caller's bytes
alloc_str_borrowed(arena, text) ==
    [arena |-> arena, view |-> [buf |-> "line", off |-> 0, len |-> Len(text)]]

\* Bump::alloc_str: copy text into the arena, hand back a view of the copy
alloc_str(arena, text) ==
    [arena |-> arena \o text,
     view |-> [buf |-> "arena", off |-> Len(arena), len |-> Len(text)]]

\* line.split_once(';'): the parts around the leftmost ';'
split_once(line) ==
    IF \E i \in 1..Len(line) : line[i] = ";"
    THEN LET at == CHOOSE i \in 1..Len(line) :
                       line[i] = ";" /\ \A j \in 1..(i - 1) : line[j] /= ";"
         IN  [found |-> TRUE, before |-> SubSeq(line, 1, at - 1),
              after |-> SubSeq(line, at + 1, Len(line))]
    ELSE [found |-> FALSE, before |-> <<>>, after |-> <<>>]

\* HashMap::get_mut: the entries whose key has the bytes of name
get_mut(table, name, arena, line) ==
    {e \in table : Deref(e.key, arena, line) = name}

\* HashMap::insert: a key already present keeps its entry's key and has the
\* value replaced
insert(table, key, value, arena, line) ==
    LET same == get_mut(table, Deref(key, arena, line), arena, line)
    IN  IF same = {}
        THEN table \cup {[key |-> key, value |-> value]}
        ELSE (table \ same) \cup {[key |-> e.key, value |-> value] : e \in same}

\* faulty variant: the record starts with the first line already counted
NewCityDataCounted(city_name, temperature) ==
    [city_name |-> city_name,
     minimum_temperature |-> temperature,
     maximum_temperature |-> temperature,
     temperatures_sum |-> temperature,
     data_points |-> 1]

\* the CityData literal inserted on first sight of a city
NewCityData(city_name, temperature) ==
    [city_name |-> city_name,
     minimum_temperature |-> temperature,
     maximum_temperature |-> temperature,
     temperatures_sum |-> 0,
     data_points |-> 0]

\* faulty variant: the minimum is overwritten by every line
UpdateCityDataLastMin(city_data, temperature) ==
    [city_data EXCEPT
        !.minimum_temperature = temperature,
        !.maximum_temperature = IF @ < temperature THEN temperature ELSE @,
        !.temperatures_sum = @ + temperature,
        !.data_points = @ + 1]

\* "update the city data"
UpdateCityData(city_data, temperature) ==
    [city_data EXCEPT
        !.minimum_temperature = IF temperature < @ THEN temperature ELSE @,
        !.maximum_temperature = IF @ < temperature THEN temperature ELSE @,
        !.temperatures_sum = @ + temperature,
        !.data_points = @ + 1]

\* faulty variant: an existence check, then the lookup
GetOrInsertCityDataChecked(arena, table, line, city_name, temperature) ==
    LET hit == get_mut(table, city_name, arena, line)
    IN  IF hit /= {}
        THEN [ok |-> TRUE, arena |-> arena, table |-> table, found |-> hit,
              ops |-> <<"contains_key", "get_mut">>, allocs |-> 0]
        ELSE LET a == alloc_str(arena, city_name)
                 t == insert(table, a.view, NewCityData(a.view, temperature),
                             a.arena, line)
                 again == get_mut(t, city_name, a.arena, line)
             IN  [ok |-> again /= {}, arena |-> a.arena, table |-> t,
                  found |-> again, ops |-> <<"get_mut", "insert", "get_mut">>,
                  allocs |-> 1]

\* "get the city data": the match on data_summary.get_mut(city_name).
\* found is the entry city_data refers to, ops the HashMap calls made,
\* ok = FALSE the panic of the expect after the insert
GetOrInsertCityData(arena, table, line, city_name, temperature) ==
    LET hit == get_mut(table, city_name, arena, line)
    IN  IF hit /= {}
        THEN [ok |-> TRUE, arena |-> arena, table |-> table, found |-> hit,
              ops |-> <<"get_mut">>, allocs |-> 0]
        ELSE LET a == alloc_str(arena, city_name)
                 t == insert(table, a.view, NewCityData(a.view, temperature),
                             a.arena, line)
                 again == get_mut(t, city_name, a.arena, line)
             IN  [ok |-> again /= {}, arena |-> a.arena, table |-> t,
                  found |-> again, ops |-> <<"get_mut", "insert", "get_mut">>,
                  allocs |-> 1]

\* process_line: the arena and the table after the call; ok = FALSE is a panic
process_line(arena, table, line) ==
    LET parts == split_once(line)
        parsed == temperature_to_int(parts.after)
        failed == [ok |-> FALSE, arena |-> arena, table |-> table,
                   ops |-> <<>>, allocs |-> 0]
    IN  IF ~parts.found THEN failed
        ELSE IF ~parsed.ok THEN failed
        ELSE LET got == GetOrInsertCityData(arena, table, line, parts.before,
                                            parsed.value)
             IN  IF ~got.ok
                 THEN [failed EXCEPT !.arena = got.arena, !.table = got.table,
                                     !.ops = got.ops, !.allocs = got.allocs]
                 ELSE [ok |-> TRUE, arena |-> got.arena,
                       table |-> (got.table \ got.found) \cup
                                 {[e EXCEPT !.value = UpdateCityData(@, parsed.value)] :
                                     e \in got.found},
                       ops |-> got.ops, allocs |-> got.allocs]

----------------------------------------------------------------------------
(* CityData::summary and the report *)

\* faulty variant: the quotient is rounded down
i64_div_floor(a, b) == a \div b

\* a / b on i64, b > 0: the quotient truncated toward zero
i64_div(a, b) == IF a >= 0 THEN a \div b ELSE -((-a) \div b)

\* CityData::summary: the text appended to summary; ok = FALSE is a panic
\* (of a formatter call, or of the division when data_points is 0)
summary(city_data, string, arena, line, bld) ==
    LET named == (string \o Deref(city_data.city_name, arena, line)) \o <<"=">>
        lo == int_to_temperature(named, city_data.minimum_temperature, bld)
    IN  IF ~lo.ok \/ city_data.data_points = 0
        THEN [ok |-> FALSE, out |-> lo.out]
        ELSE LET mean == int_to_temperature(
                             Append(lo.out, "/"),
                             i64_div(city_data.temperatures_sum, city_data.data_points),
                             bld)
             IN  IF ~mean.ok
                 THEN [ok |-> FALSE, out |-> mean.out]
                 ELSE int_to_temperature(Append(mean.out, "/"),
                                         city_data.maximum_temperature, bld)

\* String::pop: the last character, if any, removed
pop(string) == IF string = <<>> THEN <<>> ELSE SubSeq(string, 1, Len(string) - 1)

RECURSIVE PushSummaries(_, _, _, _, _, _)
\* data_summary.values().for_each(..): values is the order of iteration
PushSummaries(string, values, i, arena, line, bld) ==
    IF i > Len(values)
    THEN [ok |-> TRUE, out |-> string]
    ELSE LET one == summary(values[i], string, arena, line, bld)
         IN  IF ~one.ok
             THEN one
             ELSE PushSummaries(one.out \o <<",", " ">>, values, i + 1,
                                arena, line, bld)

\* "save the summary to a String"
render(values, arena, line, bld) ==
    LET pushed == PushSummaries(<<"{">>, values, 1, arena, line, bld)
    IN  IF ~pushed.ok
        THEN pushed
        ELSE [ok |-> TRUE, out |-> Append(pop(pop(pushed.out)), "}")]

\* the orders in which values() may yield the values of the table
IterationOrders(table) ==
    LET n == Cardinality(table)
    IN  {[i \in 1..n |-> f[i].value] :
            f \in {g \in [1..n -> table] :
                      \A i, j \in 1..n : g[i] = g[j] => i = j}}

----------------------------------------------------------------------------
(* The input file *)

RECURSIVE NatText(_)
\* the decimal digits of n, without leading zeros
NatText(n) ==
    IF n < 10 THEN <<DigitChar(n)>>
    ELSE Append(NatText(n \div 10), DigitChar(n % 10))

\* the text ['-'] digit+ '.' digit of the scaled integer x
TemperatureText(x) ==
    LET m == IF x < 0 THEN -x ELSE x
    IN  ((IF x < 0 THEN <<"-">> ELSE <<>>) \o NatText(m \div 10))
            \o <<".", DigitChar(m % 10)>>

\* city names and scaled temperatures of the lines of the file
Keys == {<<"a">>, <<"a", "b">>, <<"b">>}

Temps == {-35, 0, 5, 120}

\* temperatures of the unterminated last lines
LastLineTemps == {5}

\* "<key>;<value>\n", and the same without the terminator (the last line of
\* a file that does not end in one)
ValidLines ==
    {[valid |-> TRUE, key |-> k, value |-> v,
      text |-> ((k \o <<";">>) \o TemperatureText(v))
                  \o (IF nl THEN <<"\n">> ELSE <<>>)] :
        k \in Keys, v \in Temps, nl \in BOOLEAN} \ 
    {[valid |-> TRUE, key |-> k, value |-> v,
      text |-> (k \o <<";">>) \o TemperatureText(v)] :
        k \in Keys, v \in Temps \ LastLineTemps}

\* lines with a fatal condition: no ';', an empty value, a character
\* outside the accepted set
MalformedLines ==
    {[valid |-> FALSE, key |-> <<>>, value |-> 0, text |-> t] :
        t \in {<<"a", "1", ".", "0", "\n">>,
               <<"a", ";">>,
               <<"a", ";", "1", "x", "0", "\n">>,
               <<"b", ";", "1", ".", "0", "\r", "\n">>}}

InputLines == ValidLines \cup MalformedLines

Terminated(line) == line /= <<>> /\ line[Len(line)] = "\n"

----------------------------------------------------------------------------
(* main *)

PipeInit ==
    /\ pc = "loop"
    /\ line_buffer = <<>>
    /\ city_name_buffer = <<>>
    /\ data_summary = {}
    /\ line_counter = 0
    /\ summary_string = <<>>
    /\ output_file = <<>>
    /\ submitted = EmptyBag
    /\ allocs = 0
    /\ map_ops = <<>>
    /\ fatal_seen = FALSE
    /\ order = <<>>

CodecIdle ==
    /\ codec_pc = "idle"
    /\ codec_in = [kind |-> "none"]
    /\ codec_text = <<>>
    /\ codec_res = [ok |-> TRUE, value |-> 0]

PermIdle ==
    /\ perm_pc = "idle"
    /\ pending2 = EmptyBag
    /\ city_name_buffer2 = <<>>
    /\ data_summary2 = {}

Init ==
    /\ build \in Builds
    /\ PipeInit
    /\ CodecIdle
    /\ PermIdle

\* one turn of the loop with a line read: read_line, process_line, count
ReadAndProcessLine ==
    /\ pc = "loop"
    /\ line_counter < MaxLines
    /\ line_buffer = <<>> \/ Terminated(line_buffer)
    /\ \E input \in InputLines :
          \E r \in {process_line(city_name_buffer, data_summary, input.text)} :
              /\ line_buffer' = input.text
              /\ fatal_seen' = (fatal_seen \/ ~input.valid)
              /\ map_ops' = r.ops
              /\ allocs' = allocs + r.allocs
              /\ city_name_buffer' = r.arena
              /\ data_summary' = r.table
              /\ IF r.ok
                 THEN /\ pc' = "loop"
                      /\ line_counter' = line_counter + 1
                      /\ submitted' = IF input.valid
                                      THEN submitted (+) SetToBag({[key |-> input.key,
                                                                     value |-> input.value]})
                                      ELSE submitted
                 ELSE /\ pc' = "aborted"
                      /\ UNCHANGED <<line_counter, submitted>>
    /\ UNCHANGED <<summary_string, output_file, order, build, codec_vars, perm_vars>>

\* the turn of the loop in which read_line reads nothing: break
EndOfFile ==
    /\ pc = "loop"
    /\ pc' = "render"
    /\ line_buffer' = <<>>
    /\ UNCHANGED <<city_name_buffer, data_summary, line_counter, summary_string,
                   output_file, submitted, allocs, map_ops, fatal_seen, order,
                   build, codec_vars, perm_vars>>

\* the summary built in summary_string
RenderSummary ==
    /\ pc = "render"
    /\ \E values \in IterationOrders(data_summary) :
          LET r == render(values, city_name_buffer, line_buffer, build)
          IN  /\ order' = values
              /\ summary_string' = r.out
              /\ pc' = IF r.ok THEN "write" ELSE "aborted"
    /\ UNCHANGED <<line_buffer, city_name_buffer, data_summary, line_counter,
                   output_file, submitted, allocs, map_ops, fatal_seen,
                   build, codec_vars, perm_vars>>

\* fs::write(OUTPUT_FILE_PATH, summary_string)
WriteSummary ==
    /\ pc = "write"
    /\ output_file' = Append(output_file, summary_string)
    /\ pc' = "done"
    /\ UNCHANGED <<line_buffer, city_name_buffer, data_summary, line_counter,
                   summary_string, submitted, allocs, map_ops, fatal_seen, order,
                   build, codec_vars, perm_vars>>

Next ==
    \/ ReadAndProcessLine
    \/ EndOfFile
    \/ RenderSummary
    \/ WriteSummary

Spec == Init /\ [][Next]_vars

----------------------------------------------------------------------------
(* The codec on its own: each function applied to inputs drawn by Init *)

BigTemps == {999999999, 1000000000, 2147483647,
             -999999999, -1000000000, -2147483647}

FormatInputs ==
    {[kind |-> "int", x |-> x] : x \in (-MaxTemp..MaxTemp) \cup BigTemps}

GrammarDigits == {"0", "3", "9"}

BadChars == {"x", "\r", ";"}

IntDigitSeqs == UNION {[1..n -> GrammarDigits] : n \in 1..MaxIntDigits}

\* the text ['-'] digit+ '.' digit ['\n'] with the parts of c
GrammarText(c) ==
    (((IF c.neg THEN <<"-">> ELSE <<>>) \o c.int) \o <<".", c.frac>>)
        \o (IF c.nl THEN <<"\n">> ELSE <<>>)

\* text with character ch put after its first pos characters
InsertAt(text, pos, ch) ==
    (SubSeq(text, 1, pos) \o <<ch>>) \o SubSeq(text, pos + 1, Len(text))

GrammarCases ==
    {[kind |-> "grammar", neg |-> neg, int |-> int, frac |-> frac, nl |-> nl] :
        neg \in BOOLEAN, int \in IntDigitSeqs, frac \in GrammarDigits,
        nl \in BOOLEAN}

BadCases ==
    {[kind |-> "bad", of |-> c, pos |-> pos, ch |-> ch] :
        c \in GrammarCases, pos \in 0..(MaxIntDigits + 4), ch \in BadChars}

ParseInputs == (GrammarCases \cup BadCases) \cup {[kind |-> "empty"]}

CaseText(c) ==
    IF c.kind = "empty" THEN <<>>
    ELSE IF c.kind = "grammar" THEN GrammarText(c)
    ELSE InsertAt(GrammarText(c.of),
                  IF c.pos > Len(GrammarText(c.of)) THEN Len(GrammarText(c.of))
                  ELSE c.pos,
                  c.ch)

CodecInit ==
    /\ build \in Builds
    /\ pc = "idle"
    /\ line_buffer = <<>>
    /\ city_name_buffer = <<>>
    /\ data_summary = {}
    /\ line_counter = 0
    /\ summary_string = <<>>
    /\ output_file = <<>>
    /\ submitted = EmptyBag
    /\ allocs = 0
    /\ map_ops = <<>>
    /\ fatal_seen = FALSE
    /\ order = <<>>
    /\ PermIdle
    /\ codec_res = [ok |-> TRUE, value |-> 0]
    /\ \/ /\ codec_pc = "format"
          /\ codec_in \in FormatInputs
          /\ codec_text = <<>>
       \/ /\ codec_pc = "parse"
          /\ codec_in \in ParseInputs
          /\ codec_text = CaseText(codec_in)

\* int_to_temperature::<10>(&mut String::new(), x)
Format ==
    /\ codec_pc = "format"
    /\ \E r \in {int_to_temperature(<<>>, codec_in.x, build)} :
          /\ codec_text' = r.out
          /\ codec_res' = [ok |-> r.ok, value |-> 0]
          /\ codec_pc' = IF r.ok THEN "formatted" ELSE "format_aborted"
    /\ UNCHANGED <<codec_in, build, pipe_vars, perm_vars>>

\* temperature_to_int of the text just formatted
ParseBack ==
    /\ codec_pc = "formatted"
    /\ \E r \in {temperature_to_int(codec_text)} :
          /\ codec_res' = r
          /\ codec_pc' = IF r.ok THEN "roundtrip" ELSE "parse_aborted"
    /\ UNCHANGED <<codec_in, codec_text, build, pipe_vars, perm_vars>>

\* temperature_to_int of a given text
Parse ==
    /\ codec_pc = "parse"
    /\ \E r \in {temperature_to_int(codec_text)} :
          /\ codec_res' = r
          /\ codec_pc' = IF r.ok THEN "parsed" ELSE "parse_aborted"
    /\ UNCHANGED <<codec_in, codec_text, build, pipe_vars, perm_vars>>

CodecNext ==
    \/ Format
    \/ ParseBack
    \/ Parse

CodecSpec == CodecInit /\ [][CodecNext]_vars

----------------------------------------------------------------------------
(* Two runs of process_line over the same lines, in any two orders *)

PermKeys == {<<"a">>, <<"b">>}

PermTemps == {-35, 5, 120}

PermLines == {l \in ValidLines :
                 l.key \in PermKeys /\ l.value \in PermTemps /\ Terminated(l.text)}

PermInit ==
    /\ build \in Builds
    /\ PipeInit
    /\ CodecIdle
    /\ perm_pc = "first"
    /\ pending2 = EmptyBag
    /\ city_name_buffer2 = <<>>
    /\ data_summary2 = {}

\* the first run reads a line and processes it
FirstRunLine ==
    /\ perm_pc = "first"
    /\ line_counter < MaxPermLines
    /\ \E input \in PermLines :
          \E r \in {process_line(city_name_buffer, data_summary, input.text)} :
              /\ r.ok
              /\ line_buffer' = input.text
              /\ city_name_buffer' = r.arena
              /\ data_summary' = r.table
              /\ line_counter' = line_counter + 1
              /\ pending2' = pending2 (+) SetToBag({input.text})
    /\ UNCHANGED <<pc, summary_string, output_file, submitted, allocs, map_ops,
                   fatal_seen, order, build, codec_vars, perm_pc,
                   city_name_buffer2, data_summary2>>

\* the first run reaches the end of its file
FirstRunEnd ==
    /\ perm_pc = "first"
    /\ perm_pc' = "second"
    /\ UNCHANGED <<pipe_vars, build, codec_vars, pending2, city_name_buffer2,
                   data_summary2>>

\* the second run reads any line of the same file not yet read
SecondRunLine ==
    /\ perm_pc = "second"
    /\ \E text \in BagToSet(pending2) :
          \E r \in {process_line(city_name_buffer2, data_summary2, text)} :
              /\ r.ok
              /\ city_name_buffer2' = r.arena
              /\ data_summary2' = r.table
              /\ pending2' = pending2 (-) SetToBag({text})
    /\ UNCHANGED <<pipe_vars, build, codec_vars, perm_pc>>

PermNext ==
    \/ FirstRunLine
    \/ FirstRunEnd
    \/ SecondRunLine

PermSpec == PermInit /\ [][PermNext]_vars

----------------------------------------------------------------------------
(* What the history variables say of the lines processed *)

SubmittedKeys == {p.key : p \in BagToSet(submitted)}

SubmittedUnder(k) == {p \in BagToSet(submitted) : p.key = k}

RECURSIVE CountOfPairs(_)
CountOfPairs(S) ==
    IF S = {} THEN 0
    ELSE LET p == CHOOSE q \in S : TRUE
         IN  CopiesIn(p, submitted) + CountOfPairs(S \ {p})

RECURSIVE SumOfPairs(_)
SumOfPairs(S) ==
    IF S = {} THEN 0
    ELSE LET p == CHOOSE q \in S : TRUE
         IN  CopiesIn(p, submitted) * p.value + SumOfPairs(S \ {p})

RECURSIVE TotalLen(_)
TotalLen(S) ==
    IF S = {} THEN 0
    ELSE LET k == CHOOSE q \in S : TRUE
         IN  Len(k) + TotalLen(S \ {k})

EntriesOf(k) ==
    {e \in data_summary : Deref(e.key, city_name_buffer, line_buffer) = k}

\* the valid line, if any, whose text is in the line buffer
LastInput == {l \in ValidLines : l.text = line_buffer}

RECURSIVE SplitOn(_, _)
\* the parts of text between the occurrences of ch
SplitOn(text, ch) ==
    IF \E i \in 1..Len(text) : text[i] = ch
    THEN LET at == CHOOSE i \in 1..Len(text) :
                       text[i] = ch /\ \A j \in 1..(i - 1) : text[j] /= ch
         IN  <<SubSeq(text, 1, at - 1)>> \o SplitOn(SubSeq(text, at + 1, Len(text)), ch)
    ELSE <<text>>

\* the "key=min/mean/max" parts of a report, each as its '/'-separated fields
ReportFields(blob) ==
    LET parts == SplitOn(SubSeq(blob, 2, Len(blob) - 1), ",")
    IN  [i \in 1..Len(parts) |-> SplitOn(parts[i], "/")]

\* the quotient of a by b > 0 nearest to zero, stated without a division
TruncatedQuotient(a, b) ==
    LET m == IF a < 0 THEN -a ELSE a
        q == CHOOSE n \in 0..m : n * b <= m /\ m < (n + 1) * b
    IN  IF a < 0 THEN -q ELSE q

\* the text of v as the formatter renders it
Formatted(v) == int_to_temperature(<<>>, v, build).out

RECURSIVE JoinedEntries(_, _)
\* the entries of values from the i-th on, ", " between consecutive ones
JoinedEntries(values, i) ==
    IF i > Len(values) THEN <<>>
    ELSE (summary(values[i], <<>>, city_name_buffer, line_buffer, build).out
              \o (IF i < Len(values) THEN <<",", " ">> ELSE <<>>))
         \o JoinedEntries(values, i + 1)

RECURSIVE DigitsValue(_)
\* the number a digit string denotes
DigitsValue(ds) ==
    IF ds = <<>> THEN 0
    ELSE DigitVal(ds[Len(ds)]) + 10 * DigitsValue(SubSeq(ds, 1, Len(ds) - 1))

\* per key, what a table holds
Records(table, arena) ==
    {[name |-> Deref(e.key, arena, <<>>),
      minimum |-> e.value.minimum_temperature,
      maximum |-> e.value.maximum_temperature,
      sum |-> e.value.temperatures_sum,
      count |-> e.value.data_points] : e \in table}

----------------------------------------------------------------------------
(* The claims *)

\* C1: after any sequence of valid lines every key submitted has exactly one
\* record, whose minimum and maximum bound every value submitted under the
\* key, whose count is the number of lines submitted under it (1 for a key
\* seen once, with minimum = maximum = sum = the value) and whose sum is the
\* exact sum of the values; a key never submitted has no record.
AggregatesExact ==
    \A k \in Keys :
        IF k \notin SubmittedKeys
        THEN EntriesOf(k) = {}
        ELSE /\ Cardinality(EntriesOf(k)) = 1
             /\ \A e \in EntriesOf(k) :
                   /\ \A p \in SubmittedUnder(k) :
                         /\ e.value.minimum_temperature <= p.value
                         /\ p.value <= e.value.maximum_temperature
                   /\ e.value.data_points = CountOfPairs(SubmittedUnder(k))
                   /\ e.value.data_points > 0
                   /\ e.value.temperatures_sum = SumOfPairs(SubmittedUnder(k))
                   /\ e.value.data_points = 1 =>
                         \A p \in SubmittedUnder(k) :
                             /\ e.value.minimum_temperature = p.value
                             /\ e.value.maximum_temperature = p.value
                             /\ e.value.temperatures_sum = p.value

\* a key seen twice with different values beside a key seen once
AggregatesExactWitness ==
    /\ BagCardinality(submitted) = 3
    /\ \E e \in data_summary :
          /\ e.value.data_points = 2
          /\ e.value.minimum_temperature < e.value.maximum_temperature
    /\ \E e \in data_summary : e.value.data_points = 1

\* C2: whenever the formatter has rendered x, the text is ['-'] digit+ '.'
\* digit: a '-' exactly when x < 0, the digits of |x| without leading zeros
\* but for a single 0 before the point when |x| < 10, and the point one
\* digit from the right.
FormatRendersFixedPoint ==
    codec_pc = "formatted" => codec_text = TemperatureText(codec_in.x)

\* C3: for every x the formatter completes and parsing its text gives x
\* back.
RoundTrip ==
    /\ codec_pc /= "format_aborted"
    /\ (codec_in.kind = "int" /\ codec_pc /= "format" /\ codec_pc /= "formatted") =>
          /\ codec_pc = "roundtrip"
          /\ codec_res.value = codec_in.x

\* C4: the report is '{', then one "key=min/mean/max" entry per record of
\* the table, consecutive entries separated by ", ", then '}', for every
\* number of records.
ReportStructure ==
    pc \in {"write", "done"} =>
        /\ Len(order) = Cardinality(data_summary)
        /\ summary_string = (<<"{">> \o JoinedEntries(order, 1)) \o <<"}">>

\* C5 as claimed: the mean field of every entry of the report is the
\* formatted value of sum floor-divided by count.
MeanIsFloorDivision ==
    (pc \in {"write", "done"} /\ order /= <<>>) =>
        LET fields == ReportFields(summary_string)
        IN  /\ Len(fields) = Len(order)
            /\ \A i \in 1..Len(order) :
                  /\ Len(fields[i]) = 3
                  /\ fields[i][2] =
                        Formatted(order[i].temperatures_sum \div order[i].data_points)

\* C5 as amended: the mean field of every entry of the report is the
\* formatted value of sum divided by count with the quotient truncated
\* toward zero (rounded down for a sum >= 0, up for a sum < 0).
MeanIsTruncatedDivision ==
    (pc \in {"write", "done"} /\ order /= <<>>) =>
        LET fields == ReportFields(summary_string)
        IN  /\ Len(fields) = Len(order)
            /\ \A i \in 1..Len(order) :
                  /\ Len(fields[i]) = 3
                  /\ fields[i][2] =
                        Formatted(TruncatedQuotient(order[i].temperatures_sum,
                                                    order[i].data_points))

\* a report with a record of negative sum that its count does not divide
MeanIsTruncatedDivisionWitness ==
    /\ pc = "done"
    /\ \E i \in 1..Len(order) :
          /\ order[i].temperatures_sum < 0
          /\ order[i].temperatures_sum % order[i].data_points /= 0

\* C6: a malformed line aborts the run at once and nothing is ever written
\* after it; the report is written at most once, after end of file, with
\* every line read processed, and it is the whole summary string.
NoOutputUnlessComplete ==
    /\ Len(output_file) <= 1
    /\ fatal_seen => (pc = "aborted" /\ output_file = <<>>)
    /\ pc = "aborted" => output_file = <<>>
    /\ output_file /= <<>> =>
          /\ pc = "done"
          /\ line_counter = BagCardinality(submitted)
          /\ Len(order) = Cardinality(data_summary)
          /\ output_file = <<summary_string>>
          /\ summary_string[Len(summary_string)] = "}"
    /\ pc \in {"loop", "render", "write"} => output_file = <<>>

\* a run aborted by a malformed line after a valid one, nothing written
NoOutputUnlessCompleteWitness ==
    /\ fatal_seen
    /\ pc = "aborted"
    /\ data_summary /= {}
    /\ output_file = <<>>

\* C7 as claimed: every process_line call makes exactly one HashMap
\* operation.
OneMapOperationPerLine ==
    (pc = "loop" /\ line_counter > 0) => Len(map_ops) = 1

\* C7 as amended: a process_line call makes exactly one HashMap operation,
\* a get_mut, when the key is already in the table, and exactly three when
\* the key is seen for the first time: the get_mut that misses, the insert
\* and a second get_mut.
MapOperationsPerLine ==
    (pc = "loop" /\ line_counter > 0) =>
        \A l \in LastInput :
            map_ops = IF CountOfPairs(SubmittedUnder(l.key)) > 1
                      THEN <<"get_mut">>
                      ELSE <<"get_mut", "insert", "get_mut">>

\* a line whose key was already in the table has just been processed
MapOperationsPerLineWitness ==
    /\ pc = "loop"
    /\ line_counter = 2
    /\ Cardinality(data_summary) = 1
    /\ map_ops = <<"get_mut">>

\* C8, in every state: as many allocations as distinct keys seen, the arena
\* holds each of them once, and every table key and city_name is a view of
\* arena bytes equal to the key, never of the line buffer.
ArenaHoldsEachKeyOnce ==
    /\ allocs = Cardinality(SubmittedKeys)
    /\ Len(city_name_buffer) = TotalLen(SubmittedKeys)
    /\ \A e \in data_summary :
          /\ e.key.buf = "arena"
          /\ e.value.city_name = e.key
          /\ e.key.off + e.key.len <= Len(city_name_buffer)
          /\ SubSeq(city_name_buffer, e.key.off + 1, e.key.off + e.key.len)
                \in SubmittedKeys
    /\ \A e1, e2 \in data_summary :
          e1 /= e2 =>
             \/ e1.key.off + e1.key.len <= e2.key.off
             \/ e2.key.off + e2.key.len <= e1.key.off

\* C8, in every step: the arena only grows at its end, and a line whose key
\* is already in the table allocates nothing.
ArenaAppendOnly ==
    /\ Len(city_name_buffer) <= Len(city_name_buffer')
    /\ SubSeq(city_name_buffer', 1, Len(city_name_buffer)) = city_name_buffer
    /\ (line_counter' = line_counter + 1
           /\ \E l \in ValidLines : l.text = line_buffer' /\ EntriesOf(l.key) /= {}) =>
          /\ allocs' = allocs
          /\ city_name_buffer' = city_name_buffer

\* C8: the key arena is append-only and holds each distinct key once.
ArenaInterning == []ArenaHoldsEachKeyOnce /\ [][ArenaAppendOnly]_vars

\* three lines over two keys: two allocations
ArenaInterningWitness ==
    /\ line_counter = 3
    /\ allocs = 2
    /\ Cardinality(data_summary) = 2

\* C9: two runs over the same lines in any two orders end with the same
\* minimum, maximum, sum and count for every key, and the same keys.
OrderIndependent ==
    (perm_pc = "second" /\ pending2 = EmptyBag) =>
        Records(data_summary, city_name_buffer)
            = Records(data_summary2, city_name_buffer2)

\* both runs done, the keys first seen in different orders, a key with two
\* different values
OrderIndependentWitness ==
    /\ perm_pc = "second"
    /\ pending2 = EmptyBag
    /\ line_counter = 3
    /\ city_name_buffer /= city_name_buffer2
    /\ \E e \in data_summary :
          e.value.minimum_temperature < e.value.maximum_temperature

\* C10: a text ['-'] digit+ '.' digit ['\n'] parses to the signed integer
\* of its digits with the dot removed; the empty text, and a text with a
\* character outside {'-', '.', digit, '\n'}, abort.
ParsesGrammar ==
    (codec_in.kind \in {"grammar", "bad", "empty"} /\ codec_pc /= "parse") =>
        IF codec_in.kind = "grammar"
        THEN /\ codec_pc = "parsed"
             /\ codec_res.value =
                   (IF codec_in.neg THEN -1 ELSE 1)
                       * DigitsValue(Append(codec_in.int, codec_in.frac))
        ELSE codec_pc = "parse_aborted"

\* a negative text of two integer digits and a terminator, parsed
ParsesGrammarWitness ==
    /\ codec_pc = "parsed"
    /\ codec_in.kind = "grammar"
    /\ codec_in.neg
    /\ codec_in.nl
    /\ Len(codec_in.int) = 2
    /\ codec_res.value < -100

====
